---- MODULE Spec2Model ----
(***************************************************************************)
(* Model of the Picross Board class (src/unnamed/part_000): the packed     *)
(* per-cell byte array, its accessors and mutators, the constructor and    *)
(* the hint engine calculateHints.                                         *)
(*                                                                         *)
(* JavaScript arrays are modelled as functions over 0..(n-1); a hint       *)
(* sequence (number[]) is a TLA+ sequence.  A read of a Uint8Array outside *)
(* its index range yields undefined, which the bitwise operators coerce to *)
(* 0; a write outside the index range is ignored.                          *)
(***************************************************************************)
EXTENDS Integers, Sequences, FiniteSets, TLC

VARIABLES
    rows,            \* Board.rows
    cols,            \* Board.cols
    cells,           \* Board.cells (Uint8Array), a function 0..(len-1) -> 0..255
    RowHints,        \* Board.RowHints, a function 0..(len-1) -> hint sequence
    ColHints,        \* Board.ColHints
    longestRowHint,  \* Board.longestRowHint
    longestColHint,  \* Board.longestColHint
    last,            \* history: the last call made on the board and its outcome
    prev,            \* history: the board as it was before the last call
    snap,            \* history: the cells as they were at the last completed calculateHints,
                     \* and the kinds of mutator called since ("fillCell", or "play" for the others)
    steps            \* history: number of calls made so far

vars == <<rows, cols, cells, RowHints, ColHints, longestRowHint, longestColHint,
          last, prev, snap, steps>>

(***************************************************************************)
(* Bounds of the model.                                                    *)
(***************************************************************************)
MaxDim == 2        \* largest row / column count offered to the constructor
MaxCells == 2      \* largest |rows * cols| offered to the constructor
MaxSteps == 3      \* number of calls explored after construction
HintMaxRows == 3   \* hint-engine specification: largest row count
HintMaxCols == 5   \* hint-engine specification: largest column count
HintMaxCells == 9  \* hint-engine specification: largest rows * cols
FacetMaxCells == 3 \* facet specification: largest rows * cols

DimRange == (-1)..MaxDim

\* Row arguments offered on a board of n rows: every row in range, and n itself.
RowArgs(n) == 0..(IF n < 0 THEN 0 ELSE n)

\* Column arguments offered on a board of m columns: -1, and every column in range.
ColArgs(m) == (-1)..(IF m < 1 THEN 0 ELSE m - 1)

(***************************************************************************)
(* Bitwise operators on non-negative integers (JavaScript & and |).        *)
(***************************************************************************)
RECURSIVE BitAnd(_, _)
BitAnd(a, b) ==
    IF a = 0 \/ b = 0 THEN 0
    ELSE (a % 2) * (b % 2) + 2 * BitAnd(a \div 2, b \div 2)

RECURSIVE BitOr(_, _)
BitOr(a, b) ==
    IF a = 0 THEN b
    ELSE IF b = 0 THEN a
    ELSE (IF (a % 2) + (b % 2) > 0 THEN 1 ELSE 0) + 2 * BitOr(a \div 2, b \div 2)

\* An array one element longer than asked for.
ArrayOfOneMore(n, v) == [i \in 0..n |-> v]

\* An array of n elements, all equal to v.
ArrayOf(n, v) == [i \in 0..(n - 1) |-> v]

\* new Uint8Array(rows * cols): zero-filled.
NewCells(r, c) == ArrayOf(r * c, 0)

\* this.cells[i] as the bitwise operators see it (undefined coerces to 0).
ReadCell(cs, i) == IF i \in DOMAIN cs THEN cs[i] ELSE 0

\* this.cells[i] = v on a Uint8Array: ignored outside the index range,
\* stored modulo 2^8 inside it.
WriteCell(cs, i, v) == IF i \in DOMAIN cs THEN [cs EXCEPT ![i] = v % 256] ELSE cs

\* index that leaves the column out.
indexOfWithoutCol(nc, row, col) == row * nc

\* Board.index
indexOf(nc, row, col) == row * nc + col
index(row, col) == indexOf(cols, row, col)

\* Board.isFilled reading the marked bit along with the true value (0b011).
filledInReadingMarked(cs, nc, row, col) == BitAnd(ReadCell(cs, indexOf(nc, row, col)), 3) # 0

(***************************************************************************)
(* Accessors, on an explicit cell array (cs) of a board with nc columns,   *)
(* and on the current board.                                               *)
(***************************************************************************)
filledIn(cs, nc, row, col) == BitAnd(ReadCell(cs, indexOf(nc, row, col)), 1) # 0
markedIn(cs, nc, row, col) == BitAnd(ReadCell(cs, indexOf(nc, row, col)), 2) # 0
revealedIn(cs, nc, row, col) == BitAnd(ReadCell(cs, indexOf(nc, row, col)), 4) # 0
guessedFilledIn(cs, nc, row, col) == BitAnd(ReadCell(cs, indexOf(nc, row, col)), 8) # 0

isFilled(row, col) == filledIn(cells, cols, row, col)
isMarked(row, col) == markedIn(cells, cols, row, col)
isRevealed(row, col) == revealedIn(cells, cols, row, col)
isGuessedFilled(row, col) == guessedFilledIn(cells, cols, row, col)

\* Board.getRowHints / getColHints: undefined when the table has no such entry.
Undefined == "undefined"
getRowHints(row) == IF row \in DOMAIN RowHints THEN RowHints[row] ELSE Undefined
getColHints(col) == IF col \in DOMAIN ColHints THEN ColHints[col] ELSE Undefined
getLongestRowHintLength == longestRowHint
getLongestColHintLength == longestColHint

(***************************************************************************)
(* Mutators: the cell array after the call.                                *)
(***************************************************************************)
fillCell(row, col, filled) ==
    WriteCell(cells, index(row, col),
              BitOr(BitAnd(ReadCell(cells, index(row, col)), 6),
                    IF filled THEN 1 ELSE 0))

markCell(row, col, marked) ==
    WriteCell(cells, index(row, col),
              IF marked
              THEN BitOr(ReadCell(cells, index(row, col)), 2)
              ELSE BitAnd(ReadCell(cells, index(row, col)), 5))

\* revealCell whose unreveal mask keeps bit 3 (0b1011).
revealInKeepingGuess(cs, row, col, revealed) ==
    WriteCell(cs, index(row, col),
              IF revealed
              THEN BitOr(ReadCell(cs, index(row, col)), 4)
              ELSE BitAnd(ReadCell(cs, index(row, col)), 11))

\* revealCell whose reveal mask sets bit 3 as well (0b1100).
revealInSettingGuess(cs, row, col, revealed) ==
    WriteCell(cs, index(row, col),
              IF revealed
              THEN BitOr(ReadCell(cs, index(row, col)), 12)
              ELSE BitAnd(ReadCell(cs, index(row, col)), 3))

revealIn(cs, row, col, revealed) ==
    WriteCell(cs, index(row, col),
              IF revealed
              THEN BitOr(ReadCell(cs, index(row, col)), 4)
              ELSE BitAnd(ReadCell(cs, index(row, col)), 3))

revealCell(row, col, revealed) == revealIn(cells, row, col, revealed)

\* guessCell without the call of revealCell.
guessCellWithoutReveal(row, col, filled) ==
    WriteCell(cells, index(row, col),
              IF filled
              THEN BitOr(ReadCell(cells, index(row, col)), 8)
              ELSE BitAnd(ReadCell(cells, index(row, col)), 7))

guessCell(row, col, filled) ==
    revealIn(WriteCell(cells, index(row, col),
                       IF filled
                       THEN BitOr(ReadCell(cells, index(row, col)), 8)
                       ELSE BitAnd(ReadCell(cells, index(row, col)), 7)),
             row, col, TRUE)

(***************************************************************************)
(* calculateHints.  The loop state is a record h holding the two hint      *)
(* tables, the two maxima, the per-column counters (currentColHints) and   *)
(* the counter of the current row (currentRowHint).                        *)
(***************************************************************************)
\* calculateHints without the reset of the tables: a table of the right
\* length is kept and appended to.
HintsStartWithoutReset ==
    [RowHints |-> IF DOMAIN RowHints = 0..(rows - 1) THEN RowHints ELSE ArrayOf(rows, <<>>),
     ColHints |-> IF DOMAIN ColHints = 0..(cols - 1) THEN ColHints ELSE ArrayOf(cols, <<>>),
     longestRowHint |-> 0,
     longestColHint |-> 0,
     currentColHints |-> ArrayOf(cols, 0),
     currentRowHint |-> 0]

\* calculateHints without the reset of the stored longest hints.
HintsStartKeepingLongest ==
    [RowHints |-> ArrayOf(rows, <<>>),
     ColHints |-> ArrayOf(cols, <<>>),
     longestRowHint |-> longestRowHint,
     longestColHint |-> longestColHint,
     currentColHints |-> ArrayOf(cols, 0),
     currentRowHint |-> 0]

\* Lines 146-154: the tables reset to empty sequences, the maxima to 0 and
\* the column counters to 0.
HintsStart ==
    [RowHints |-> ArrayOf(rows, <<>>),
     ColHints |-> ArrayOf(cols, <<>>),
     longestRowHint |-> 0,
     longestColHint |-> 0,
     currentColHints |-> ArrayOf(cols, 0),
     currentRowHint |-> 0]

\* The row counter that stores the count at every empty cell, zero or not.
RowCountStoringZero(h, r, c) ==
    IF isFilled(r, c)
    THEN [h EXCEPT !.currentRowHint = @ + 1]
    ELSE [h EXCEPT !.RowHints[r] = Append(@, h.currentRowHint),
                   !.currentRowHint = 0]

\* Lines 163-172: the row counter at cell (r, c).
RowCount(h, r, c) ==
    IF isFilled(r, c)
    THEN [h EXCEPT !.currentRowHint = @ + 1]
    ELSE IF h.currentRowHint > 0
         THEN [h EXCEPT !.RowHints[r] = Append(@, h.currentRowHint),
                        !.currentRowHint = 0]
         ELSE h

\* The column counter that stores a run without starting a new count.
ColCountWithoutReset(h, r, c) ==
    IF isFilled(r, c)
    THEN [h EXCEPT !.currentColHints[c] = @ + 1]
    ELSE IF h.currentColHints[c] > 0
         THEN [h EXCEPT !.ColHints[c] = Append(@, h.currentColHints[c])]
         ELSE h

\* Lines 174-183: the column counter at cell (r, c).
ColCount(h, r, c) ==
    IF isFilled(r, c)
    THEN [h EXCEPT !.currentColHints[c] = @ + 1]
    ELSE IF h.currentColHints[c] > 0
         THEN [h EXCEPT !.ColHints[c] = Append(@, h.currentColHints[c]),
                        !.currentColHints[c] = 0]
         ELSE h

\* Lines 161-184: the loop over the columns of row r, from column c on.
RECURSIVE ColumnLoop(_, _, _)
ColumnLoop(h, r, c) ==
    IF c < cols
    THEN ColumnLoop(ColCount(RowCount(h, r, c), r, c), r, c + 1)
    ELSE h

\* The scan without the store at the end of the row.
RowFlushMissing(h, r) == h

\* Lines 186-189: at the end of the row, store the remaining hint if present.
RowFlush(h, r) ==
    IF h.currentRowHint > 0
    THEN [h EXCEPT !.RowHints[r] = Append(@, h.currentRowHint)]
    ELSE h

\* Lines 191-194: the longest row hint so far.
RowLongest(h, r) ==
    IF Len(h.RowHints[r]) > h.longestRowHint
    THEN [h EXCEPT !.longestRowHint = Len(h.RowHints[r])]
    ELSE h

\* Lines 157-195: the loop over the rows, from row r on.
RECURSIVE RowLoop(_, _)
RowLoop(h, r) ==
    IF r < rows
    THEN RowLoop(RowLongest(RowFlush(
                     ColumnLoop([h EXCEPT !.currentRowHint = 0], r, 0), r), r),
                 r + 1)
    ELSE h

\* Lines 198-201: push the outstanding hint of column c.
ColFlush(h, c) ==
    IF h.currentColHints[c] > 0
    THEN [h EXCEPT !.ColHints[c] = Append(@, h.currentColHints[c])]
    ELSE h

\* Lines 202-205: the longest column hint so far.
ColLongest(h, c) ==
    IF Len(h.ColHints[c]) > h.longestColHint
    THEN [h EXCEPT !.longestColHint = Len(h.ColHints[c])]
    ELSE h

\* Lines 197-206: the final loop over the columns, from column c on.
RECURSIVE FinalLoop(_, _)
FinalLoop(h, c) ==
    IF c < cols
    THEN FinalLoop(ColLongest(ColFlush(h, c), c), c + 1)
    ELSE h

\* The loop state when calculateHints returns (rows >= 0 and cols >= 0).
calculateHints == FinalLoop(RowLoop(HintsStart, 0), 0)

(***************************************************************************)
(* History variables.                                                      *)
(***************************************************************************)
Board ==
    [rows |-> rows, cols |-> cols, cells |-> cells,
     RowHints |-> RowHints, ColHints |-> ColHints,
     longestRowHint |-> longestRowHint, longestColHint |-> longestColHint,
     snap |-> snap]

Call(op, row, col, arg, err) ==
    [op |-> op, row |-> row, col |-> col, arg |-> arg, err |-> err]

Mutators == {"fillCell", "markCell", "revealCell", "guessCell"}

NoSnap(cs) == [valid |-> FALSE, cells |-> cs, ops |-> {}]

\* A mutator call: cs is the cell array it leaves.
Mutate(op, row, col, arg, cs) ==
    /\ steps < MaxSteps
    /\ cells' = cs
    /\ last' = Call(op, row, col, arg, "none")
    /\ prev' = Board
    /\ snap' = [snap EXCEPT !.ops = @ \cup {IF op = "fillCell" THEN "fillCell" ELSE "play"}]
    /\ steps' = steps + 1
    /\ UNCHANGED <<rows, cols, RowHints, ColHints, longestRowHint, longestColHint>>

(***************************************************************************)
(* Actions.                                                                *)
(***************************************************************************)
\* new Board(r, c): new Uint8Array(r * c) throws a RangeError when r * c < 0,
\* and the caller keeps the board it had; otherwise a fresh board replaces it.
Construct(r, c) ==
    /\ steps < MaxSteps
    /\ r * c <= MaxCells
    /\ -(r * c) <= MaxCells
    /\ prev' = Board
    /\ steps' = steps + 1
    /\ IF r * c < 0
       THEN /\ last' = Call("constructor", r, c, FALSE, "RangeError")
            /\ UNCHANGED <<rows, cols, cells, RowHints, ColHints,
                           longestRowHint, longestColHint, snap>>
       ELSE /\ last' = Call("constructor", r, c, FALSE, "none")
            /\ rows' = r
            /\ cols' = c
            /\ cells' = NewCells(r, c)
            /\ RowHints' = <<>>
            /\ ColHints' = <<>>
            /\ longestRowHint' = 0
            /\ longestColHint' = 0
            /\ snap' = NoSnap(NewCells(r, c))

FillCell(row, col, filled) == Mutate("fillCell", row, col, filled, fillCell(row, col, filled))
MarkCell(row, col, marked) == Mutate("markCell", row, col, marked, markCell(row, col, marked))
RevealCell(row, col, revealed) ==
    Mutate("revealCell", row, col, revealed, revealCell(row, col, revealed))
GuessCell(row, col, filled) == Mutate("guessCell", row, col, filled, guessCell(row, col, filled))

\* calculateHints(): Array(this.rows) throws a RangeError when rows < 0, before
\* anything is assigned; Array(this.cols) throws when cols < 0, after RowHints
\* was reset.
CalculateHints ==
    /\ steps < MaxSteps
    /\ prev' = Board
    /\ steps' = steps + 1
    /\ UNCHANGED <<rows, cols, cells>>
    /\ IF rows < 0
       THEN /\ last' = Call("calculateHints", 0, 0, FALSE, "RangeError")
            /\ UNCHANGED <<RowHints, ColHints, longestRowHint, longestColHint, snap>>
       ELSE IF cols < 0
       THEN /\ last' = Call("calculateHints", 0, 0, FALSE, "RangeError")
            /\ RowHints' = ArrayOf(rows, <<>>)
            /\ UNCHANGED <<ColHints, longestRowHint, longestColHint, snap>>
       ELSE /\ last' = Call("calculateHints", 0, 0, FALSE, "none")
            /\ RowHints' = calculateHints.RowHints
            /\ ColHints' = calculateHints.ColHints
            /\ longestRowHint' = calculateHints.longestRowHint
            /\ longestColHint' = calculateHints.longestColHint
            /\ snap' = [valid |-> TRUE, cells |-> cells, ops |-> {}]

\* A board of r x c cells (r, c >= 1) after construction and authoring: every
\* cell is 0 (empty) or 1 (filled by fillCell on the fresh cell), and no hint
\* has been calculated.  No call has been observed yet.
Authored(r, c) == [0..(r * c - 1) -> {0, 1}]

Init ==
    \E r \in 1..MaxDim, c \in 1..MaxDim :
        /\ r * c <= MaxCells
        /\ rows = r
        /\ cols = c
        /\ cells \in Authored(r, c)
        /\ RowHints = <<>>
        /\ ColHints = <<>>
        /\ longestRowHint = 0
        /\ longestColHint = 0
        /\ snap = NoSnap(cells)
        /\ last = Call("none", 0, 0, FALSE, "none")
        /\ prev = [rows |-> r, cols |-> c, cells |-> cells,
                   RowHints |-> <<>>, ColHints |-> <<>>,
                   longestRowHint |-> 0, longestColHint |-> 0,
                   snap |-> NoSnap(cells)]
        /\ steps = 0

Next ==
    \/ \E r \in DimRange, c \in DimRange : Construct(r, c)
    \/ \E row \in RowArgs(rows), col \in ColArgs(cols), filled \in BOOLEAN :
           FillCell(row, col, filled)
    \/ \E row \in RowArgs(rows), col \in ColArgs(cols), marked \in BOOLEAN :
           MarkCell(row, col, marked)
    \/ \E row \in RowArgs(rows), col \in ColArgs(cols), revealed \in BOOLEAN :
           RevealCell(row, col, revealed)
    \/ \E row \in RowArgs(rows), col \in ColArgs(cols), filled \in BOOLEAN :
           GuessCell(row, col, filled)
    \/ CalculateHints

Spec == Init /\ [][Next]_vars

(***************************************************************************)
(* Hint-engine specification: calculateHints applied to authored boards of *)
(* up to HintMaxRows x HintMaxCols cells.                                  *)
(***************************************************************************)
InitHints ==
    \E r \in 1..HintMaxRows, c \in 1..HintMaxCols :
        /\ r * c <= HintMaxCells
        /\ rows = r
        /\ cols = c
        /\ cells \in Authored(r, c)
        /\ RowHints = <<>>
        /\ ColHints = <<>>
        /\ longestRowHint = 0
        /\ longestColHint = 0
        /\ snap = NoSnap(cells)
        /\ last = Call("none", 0, 0, FALSE, "none")
        /\ prev = [rows |-> r, cols |-> c, cells |-> cells,
                   RowHints |-> <<>>, ColHints |-> <<>>,
                   longestRowHint |-> 0, longestColHint |-> 0,
                   snap |-> NoSnap(cells)]
        /\ steps = 0

NextHints == CalculateHints

SpecHints == InitHints /\ [][NextHints]_vars

(***************************************************************************)
(* The cell-visual classifier.                                             *)
(***************************************************************************)
\* Board.getCellVisual with the two "incorrect" labels exchanged.
getCellVisualExchanged(row, col) ==
    IF isRevealed(row, col)
    THEN IF isFilled(row, col)
         THEN (IF isGuessedFilled(row, col) THEN "filled" ELSE "empty-incorrect")
         ELSE (IF isGuessedFilled(row, col) THEN "filled-incorrect" ELSE "empty")
    ELSE (IF isMarked(row, col) THEN "marked" ELSE "empty")

\* Board.getCellVisual
getCellVisual(row, col) ==
    IF isRevealed(row, col)
    THEN IF isFilled(row, col)
         THEN (IF isGuessedFilled(row, col) THEN "filled" ELSE "filled-incorrect")
         ELSE (IF isGuessedFilled(row, col) THEN "empty-incorrect" ELSE "empty")
    ELSE (IF isMarked(row, col) THEN "marked" ELSE "empty")

\* type CellVisual
CellVisual == {"filled", "empty", "marked", "filled-incorrect", "empty-incorrect"}

\* A call of getCellVisual(row, col) on the board as drawn: the label is
\* recorded as the outcome of the call, and nothing is assigned.
GetCellVisual(row, col) ==
    /\ steps = 0
    /\ last' = Call("getCellVisual", row, col, getCellVisual(row, col), "none")
    /\ prev' = Board
    /\ steps' = steps + 1
    /\ UNCHANGED <<rows, cols, cells, RowHints, ColHints,
                   longestRowHint, longestColHint, snap>>

(***************************************************************************)
(* Facet specification: calculateHints and the classifier applied to       *)
(* boards in play of up to FacetMaxCells cells.                            *)
(***************************************************************************)
\* The bytes a cell takes in play: fillCell gives 1, markCell adds 2,
\* revealCell(true) adds 4 and guessCell(true) adds 8 and 4.
CellStates == {v \in 0..15 : BitAnd(v, 8) # 0 => BitAnd(v, 4) # 0}

InPlay(r, c) == [0..(r * c - 1) -> CellStates]

InitFacets ==
    \E r \in 1..FacetMaxCells, c \in 1..FacetMaxCells :
        /\ r * c <= FacetMaxCells
        /\ rows = r
        /\ cols = c
        /\ cells \in InPlay(r, c)
        /\ RowHints = <<>>
        /\ ColHints = <<>>
        /\ longestRowHint = 0
        /\ longestColHint = 0
        /\ snap = NoSnap(cells)
        /\ last = Call("none", 0, 0, FALSE, "none")
        /\ prev = [rows |-> r, cols |-> c, cells |-> cells,
                   RowHints |-> <<>>, ColHints |-> <<>>,
                   longestRowHint |-> 0, longestColHint |-> 0,
                   snap |-> NoSnap(cells)]
        /\ steps = 0

NextFacets ==
    \/ CalculateHints
    \/ \E row \in 0..(rows - 1), col \in 0..(cols - 1) : GetCellVisual(row, col)

SpecFacets == InitFacets /\ [][NextFacets]_vars

(***************************************************************************)
(* Board.toString.  A string is a sequence of one-character strings.       *)
(***************************************************************************)
\* " ".repeat(n)
Spaces(n) == [k \in 1..n |-> " "]

\* Number.prototype.toString() of a natural number.
RECURSIVE NumberToString(_)
NumberToString(n) ==
    IF n < 10
    THEN <<<<"0", "1", "2", "3", "4", "5", "6", "7", "8", "9">>[n + 1]>>
    ELSE NumberToString(n \div 10) \o NumberToString(n % 10)

\* The glyph U+2B1A (dotted square), which a TLA+ string cannot hold, written
\* as its JavaScript escape.
DottedSquare == "\\u2B1A"

\* Board.getStringForCell
getStringForCell(row, col) ==
    IF isRevealed(row, col)
    THEN IF isFilled(row, col)
         THEN (IF isGuessedFilled(row, col) THEN "⏹" ELSE "▦")
         ELSE (IF isGuessedFilled(row, col) THEN DottedSquare ELSE "⊡")
    ELSE (IF isMarked(row, col) THEN "⊠" ELSE "▢")

\* Lines 229-235: what column c adds to the i-th line of column hints.
ColHintText(i, c) ==
    IF Len(ColHints[c]) + i >= longestColHint
    THEN NumberToString(ColHints[c][i - (longestColHint - Len(ColHints[c])) + 1])
             \o <<" ">> \o Spaces(IF c % 4 = 0 THEN 0 ELSE 1)
    ELSE <<" ", " ">>

\* Lines 226-236: the i-th line of column hints once the columns before c
\* have been added.
RECURSIVE ColHintLine(_, _)
ColHintLine(i, c) ==
    IF c = 0
    THEN Spaces(longestRowHint * 2 + 1)
    ELSE ColHintLine(i, c - 1) \o ColHintText(i, c - 1)

\* Lines 245-251: the hints of row r once the levels before i have been added.
RECURSIVE RowHintText(_, _)
RowHintText(r, i) ==
    IF i = 0
    THEN <<>>
    ELSE RowHintText(r, i - 1) \o
         (IF Len(RowHints[r]) + (i - 1) >= longestRowHint
          THEN NumberToString(RowHints[r][(i - 1) - (longestRowHint - Len(RowHints[r])) + 1])
                   \o <<" ">>
          ELSE <<" ", " ">>)

\* Lines 242-256: the line of row r once the cells before column c have been
\* added.
RECURSIVE CellLine(_, _)
CellLine(r, c) ==
    IF c = 0
    THEN RowHintText(r, longestRowHint) \o <<"|">>
    ELSE CellLine(r, c - 1) \o <<getStringForCell(r, c - 1), "|">>

\* The array lines of toString: the lines of column hints, then the rows.
toStringLines ==
    [k \in 1..(longestColHint + (IF rows < 0 THEN 0 ELSE rows)) |->
        IF k <= longestColHint
        THEN ColHintLine(k - 1, cols)
        ELSE CellLine(k - 1 - longestColHint, cols)]

\* lines.join("\n")
RECURSIVE Join(_)
Join(lines) ==
    IF Len(lines) = 0 THEN <<>>
    ELSE IF Len(lines) = 1 THEN lines[1]
    ELSE lines[1] \o <<"\n">> \o Join(Tail(lines))

\* Board.toString
toString == Join(toStringLines)

\* A call of toString(): the string is recorded as the outcome of the call,
\* and nothing is assigned.
CallToString ==
    /\ steps < MaxSteps
    /\ last' = Call("toString", 0, 0, toString, "none")
    /\ prev' = Board
    /\ steps' = steps + 1
    /\ UNCHANGED <<rows, cols, cells, RowHints, ColHints,
                   longestRowHint, longestColHint, snap>>

(***************************************************************************)
(* Rendering specification: calculateHints and toString applied to         *)
(* authored boards of up to HintMaxRows x HintMaxCols cells.               *)
(***************************************************************************)
NextRender ==
    \/ CalculateHints
    \/ CallToString

SpecRender == InitHints /\ [][NextRender]_vars

(***************************************************************************)
(* Vocabulary of the properties.                                           *)
(***************************************************************************)
\* (row, col) names a cell of the board: row in [0, rows), col in [0, cols).
InRange(row, col) == row \in 0..(rows - 1) /\ col \in 0..(cols - 1)

\* The last call was the mutator op on an in-range cell.
Acted(op) == last.op = op /\ InRange(last.row, last.col)

\* The facets of the targeted cell before the last call.
wasFilled == filledIn(prev.cells, prev.cols, last.row, last.col)
wasMarked == markedIn(prev.cells, prev.cols, last.row, last.col)
wasRevealed == revealedIn(prev.cells, prev.cols, last.row, last.col)
wasGuessedFilled == guessedFilledIn(prev.cells, prev.cols, last.row, last.col)

\* The facets of the targeted cell after the last call.
nowFilled == isFilled(last.row, last.col)
nowMarked == isMarked(last.row, last.col)
nowRevealed == isRevealed(last.row, last.col)
nowGuessedFilled == isGuessedFilled(last.row, last.col)

\* The last call was a calculateHints that returned.
Calculated == last.op = "calculateHints" /\ last.err = "none"

\* The stored hints are those of the board b.
SameHints(b) ==
    /\ RowHints = b.RowHints
    /\ ColHints = b.ColHints
    /\ longestRowHint = b.longestRowHint
    /\ longestColHint = b.longestColHint

(***************************************************************************)
(* Run lengths, defined from the maximal runs of a line f of n cells       *)
(* (f[i] is TRUE when cell i is filled), independently of the scan.        *)
(***************************************************************************)
RunStarts(f, n) == {i \in 0..(n - 1) : f[i] /\ (i = 0 \/ ~f[i - 1])}

RunEnd(f, n, i) ==
    CHOOSE j \in i..(n - 1) :
        /\ \A k \in i..j : f[k]
        /\ (j = n - 1 \/ ~f[j + 1])

NthStart(f, n, k) ==
    CHOOSE s \in RunStarts(f, n) :
        Cardinality({t \in RunStarts(f, n) : t < s}) = k - 1

RunLengths(f, n) ==
    [k \in 1..Cardinality(RunStarts(f, n)) |->
        RunEnd(f, n, NthStart(f, n, k)) - NthStart(f, n, k) + 1]

\* Row r and column c of the cell array cs as lines.
RowLine(cs, r) == [c \in 0..(cols - 1) |-> filledIn(cs, cols, r, c)]
ColLine(cs, c) == [r \in 0..(rows - 1) |-> filledIn(cs, cols, r, c)]

RECURSIVE SumSeq(_)
SumSeq(q) == IF q = <<>> THEN 0 ELSE Head(q) + SumSeq(Tail(q))

FilledInRow(r) == Cardinality({c \in 0..(cols - 1) : isFilled(r, c)})
FilledInCol(c) == Cardinality({r \in 0..(rows - 1) : isFilled(r, c)})

(***************************************************************************)
(* Cell mutators.                                                          *)
(***************************************************************************)
\* C1: after fillCell(r, c, filled) on an in-range cell, isFilled(r, c) is
\* filled and isMarked, isRevealed and isGuessedFilled of (r, c) are what they
\* were before the call.
C1_FillCellFrame ==
    Acted("fillCell") =>
        /\ nowFilled = last.arg
        /\ nowMarked = wasMarked
        /\ nowRevealed = wasRevealed
        /\ nowGuessedFilled = wasGuessedFilled

\* C2: after markCell(r, c, marked) on an in-range cell, isMarked(r, c) is
\* marked and isFilled, isRevealed and isGuessedFilled of (r, c) are what they
\* were before the call.
C2_MarkCellFrame ==
    Acted("markCell") =>
        /\ nowMarked = last.arg
        /\ nowFilled = wasFilled
        /\ nowRevealed = wasRevealed
        /\ nowGuessedFilled = wasGuessedFilled

\* C3: after guessCell(r, c, v) on an in-range cell, revealed or not, the cell
\* is revealed and its guess is v (an earlier guess is overwritten), while
\* isFilled and isMarked are what they were before the call.
C3_GuessCellReveals ==
    Acted("guessCell") =>
        /\ nowRevealed
        /\ nowGuessedFilled = last.arg
        /\ nowFilled = wasFilled
        /\ nowMarked = wasMarked

\* A second guessCell has overwritten the opposite guess of a revealed,
\* filled cell.
C3_Witness ==
    /\ Acted("guessCell")
    /\ wasRevealed
    /\ wasGuessedFilled # last.arg
    /\ nowGuessedFilled = last.arg
    /\ wasFilled

\* C4: after revealCell(r, c, false) on an in-range cell the cell is
\* unrevealed and its guess reads empty whatever was guessed before, while
\* isMarked and isFilled are what they were before the call.
C4_UnrevealClearsGuess ==
    (Acted("revealCell") /\ last.arg = FALSE) =>
        /\ ~nowRevealed
        /\ ~nowGuessedFilled
        /\ nowMarked = wasMarked
        /\ nowFilled = wasFilled

\* revealCell(r, c, false) has unrevealed a marked cell guessed as filled.
C4_Witness ==
    /\ Acted("revealCell")
    /\ last.arg = FALSE
    /\ wasRevealed
    /\ wasGuessedFilled
    /\ wasMarked
    /\ ~nowRevealed

(***************************************************************************)
(* Hint engine.                                                            *)
(***************************************************************************)
\* C5: when calculateHints has returned, the hints of every row are the
\* lengths of the maximal runs of filled cells of that row, left to right,
\* and the hints of every column those of the column, top to bottom; a row
\* 1,1,0,0,1 has hints 2,1 and a fully filled row of 5 cells has hint 5.
C5_HintsAreRunLengths ==
    Calculated =>
        /\ \A r \in 0..(rows - 1) : getRowHints(r) = RunLengths(RowLine(cells, r), cols)
        /\ \A c \in 0..(cols - 1) : getColHints(c) = RunLengths(ColLine(cells, c), rows)
        /\ (rows = 1 /\ cells = [i \in 0..4 |-> <<1, 1, 0, 0, 1>>[i + 1]])
               => getRowHints(0) = <<2, 1>>
        /\ (rows = 1 /\ cells = [i \in 0..4 |-> 1]) => getRowHints(0) = <<5>>

\* The 3 x 3 board with (0,0), (0,1) and (1,2) filled, after calculateHints:
\* row hints [[2],[1],[]] and column hints [[1],[1],[1]].
C5_Witness ==
    /\ Calculated
    /\ rows = 3
    /\ cols = 3
    /\ \A r \in 0..2, c \in 0..2 :
           isFilled(r, c) <=> <<r, c>> \in {<<0, 0>>, <<0, 1>>, <<1, 2>>}
    /\ RowHints = [r \in 0..2 |-> <<<<2>>, <<1>>, <<>>>>[r + 1]]
    /\ ColHints = [c \in 0..2 |-> <<1>>]

\* C6: when calculateHints has returned, the hints of every row sum to the
\* number of filled cells of the row, and the hints of every column to the
\* number of filled cells of the column.
C6_HintsSumToFilled ==
    Calculated =>
        /\ \A r \in 0..(rows - 1) : SumSeq(getRowHints(r)) = FilledInRow(r)
        /\ \A c \in 0..(cols - 1) : SumSeq(getColHints(c)) = FilledInCol(c)

\* calculateHints has returned on a board with a row of several runs and a
\* column holding a run of two or more cells.
C6_Witness ==
    /\ Calculated
    /\ \E r \in 0..(rows - 1) : Len(RowHints[r]) >= 2 /\ FilledInRow(r) >= 3
    /\ \E c \in 0..(cols - 1) : \E k \in 1..Len(ColHints[c]) : ColHints[c][k] >= 2

\* C7: a calculateHints that follows an earlier calculateHints on the same
\* board with no fillCell in between (other mutators may have been called)
\* leaves the row hints, the column hints and both longest-hint lengths as the
\* earlier call left them.
C7_CalculateHintsIdempotent ==
    (Calculated /\ prev.snap.valid /\ "fillCell" \notin prev.snap.ops) =>
        SameHints(prev)

\* A second calculateHints has returned after markCell, revealCell or
\* guessCell calls on a board with a filled cell.
C7_Witness ==
    /\ Calculated
    /\ prev.snap.valid
    /\ "fillCell" \notin prev.snap.ops
    /\ prev.snap.ops # {}
    /\ longestRowHint > 0

\* C8: fillCell, markCell, revealCell and guessCell leave the stored hints and
\* longest-hint lengths as they were, and once calculateHints has returned
\* the stored hints are the run lengths of the true values as they were at
\* the most recent calculateHints, whatever was filled afterwards.
C8_HintsOnlyOnRequest ==
    /\ last.op \in Mutators => SameHints(prev)
    /\ snap.valid =>
           /\ \A r \in 0..(rows - 1) :
                  getRowHints(r) = RunLengths(RowLine(snap.cells, r), cols)
           /\ \A c \in 0..(cols - 1) :
                  getColHints(c) = RunLengths(ColLine(snap.cells, c), rows)

\* A fillCell after calculateHints has changed a true value: the stored hints
\* of the row are no longer the run lengths of the board.
C8_Witness ==
    /\ snap.valid
    /\ Acted("fillCell")
    /\ nowFilled # wasFilled
    /\ getRowHints(last.row) # RunLengths(RowLine(cells, last.row), cols)

(***************************************************************************)
(* Error handling.                                                         *)
(***************************************************************************)
\* What an accessor call yields: the accessors hold no bounds check, so none
\* raises an error, whatever the arguments.
Access(row, col) ==
    [err |-> "none",
     isFilled |-> isFilled(row, col),
     isMarked |-> isMarked(row, col),
     isRevealed |-> isRevealed(row, col),
     isGuessedFilled |-> isGuessedFilled(row, col)]

\* C9: a mutator called with row outside [0, rows) or col outside [0, cols)
\* fails with IndexOutOfRange and leaves every cell as it was, and so does
\* every accessor called with these arguments.
C9_OutOfRangeRejected ==
    (last.op \in Mutators /\ ~InRange(last.row, last.col)) =>
        /\ last.err = "IndexOutOfRange"
        /\ cells = prev.cells
        /\ Access(last.row, last.col).err = "IndexOutOfRange"

\* C10: new Board(rows, cols) with rows <= 0 or cols <= 0 fails with
\* InvalidDimension and yields no board; with rows >= 1 and cols >= 1 it
\* yields rows * cols cells, all empty, unmarked, unrevealed and guessed-empty.
C10_ConstructorValidates ==
    last.op = "constructor" =>
        IF last.row <= 0 \/ last.col <= 0
        THEN /\ last.err = "InvalidDimension"
             /\ cells = prev.cells
             /\ rows = prev.rows
             /\ cols = prev.cols
        ELSE /\ last.err = "none"
             /\ rows = last.row
             /\ cols = last.col
             /\ DOMAIN cells = 0..(rows * cols - 1)
             /\ \A r \in 0..(rows - 1), c \in 0..(cols - 1) :
                    /\ ~isFilled(r, c)
                    /\ ~isMarked(r, c)
                    /\ ~isRevealed(r, c)
                    /\ ~isGuessedFilled(r, c)

(***************************************************************************)
(* Cell mutators, continued.                                               *)
(***************************************************************************)
\* C12: after revealCell(r, c, true) on an in-range cell the cell is revealed
\* and isGuessedFilled, isMarked and isFilled of (r, c) are what they were
\* before the call; a cell that carried no guess reads as guessed empty.
C12_RevealKeepsGuess ==
    (Acted("revealCell") /\ last.arg = TRUE) =>
        /\ nowRevealed
        /\ nowGuessedFilled = wasGuessedFilled
        /\ nowMarked = wasMarked
        /\ nowFilled = wasFilled
        /\ (~wasRevealed => ~nowGuessedFilled)

\* revealCell(r, c, true) has revealed an unrevealed, marked and filled cell,
\* which reads as guessed empty.
C12_Witness ==
    /\ Acted("revealCell")
    /\ last.arg = TRUE
    /\ ~wasRevealed
    /\ wasMarked
    /\ wasFilled
    /\ nowRevealed
    /\ ~nowGuessedFilled

\* The in-range cells other than the one the last call named.
OtherCells ==
    {rc \in (0..(rows - 1)) \X (0..(cols - 1)) : rc # <<last.row, last.col>>}

\* C13: a mutator called on an in-range cell leaves the four facets of every
\* other in-range cell as they were.
C13_OtherCellsUntouched ==
    (last.op \in Mutators /\ InRange(last.row, last.col)) =>
        \A rc \in OtherCells :
            /\ isFilled(rc[1], rc[2]) = filledIn(prev.cells, prev.cols, rc[1], rc[2])
            /\ isMarked(rc[1], rc[2]) = markedIn(prev.cells, prev.cols, rc[1], rc[2])
            /\ isRevealed(rc[1], rc[2]) = revealedIn(prev.cells, prev.cols, rc[1], rc[2])
            /\ isGuessedFilled(rc[1], rc[2]) =
                   guessedFilledIn(prev.cells, prev.cols, rc[1], rc[2])

\* A mutator has changed an in-range cell of a board whose other cell is
\* filled, revealed and guessed filled.
C13_Witness ==
    /\ last.op \in Mutators
    /\ InRange(last.row, last.col)
    /\ cells # prev.cells
    /\ \E rc \in OtherCells :
           /\ isFilled(rc[1], rc[2])
           /\ isRevealed(rc[1], rc[2])
           /\ isGuessedFilled(rc[1], rc[2])

(***************************************************************************)
(* Invariants of the board.                                                *)
(***************************************************************************)
\* C18: in every state reached from an authored board by fillCell, markCell,
\* revealCell, guessCell and calculateHints, a cell guessed filled is
\* revealed: no unrevealed cell carries a stored guess, so a bare
\* revealCell(r, c, true) on an unrevealed cell yields a guessed-empty cell.
C18_GuessImpliesRevealed ==
    /\ \A i \in DOMAIN cells : BitAnd(cells[i], 8) # 0 => BitAnd(cells[i], 4) # 0
    /\ \A r \in 0..(rows - 1), c \in 0..(cols - 1) :
           isGuessedFilled(r, c) => isRevealed(r, c)
    /\ (Acted("revealCell") /\ last.arg = TRUE /\ ~wasRevealed) => ~nowGuessedFilled

\* A guess was discarded by revealCell(r, c, false): the cell, once guessed
\* filled, is unrevealed and reads guessed empty.
C18_Witness ==
    /\ Acted("revealCell")
    /\ last.arg = FALSE
    /\ wasRevealed
    /\ wasGuessedFilled
    /\ ~nowRevealed
    /\ ~nowGuessedFilled
    /\ wasFilled

\* C19: the row-hint table has 0 or exactly rows entries and the column-hint
\* table 0 or exactly cols entries.  Until a calculateHints has returned on
\* the board, getRowHints(r) and getColHints(c) are undefined (the tables
\* have no entry) for every in-range r and c, and both longest-hint lengths
\* are 0; once one has returned they are defined for every in-range r and c.
C19_HintTablesAllOrNothing ==
    /\ DOMAIN RowHints \in {{}, 0..(rows - 1)}
    /\ DOMAIN ColHints \in {{}, 0..(cols - 1)}
    /\ ~snap.valid =>
           /\ \A r \in 0..(rows - 1) : r \notin DOMAIN RowHints
           /\ \A c \in 0..(cols - 1) : c \notin DOMAIN ColHints
           /\ getLongestRowHintLength = 0
           /\ getLongestColHintLength = 0
    /\ snap.valid =>
           /\ \A r \in 0..(rows - 1) : r \in DOMAIN RowHints /\ getRowHints(r) \in Seq(Nat)
           /\ \A c \in 0..(cols - 1) : c \in DOMAIN ColHints /\ getColHints(c) \in Seq(Nat)

\* A board with computed hints was replaced by a new board, whose tables are
\* empty again although the board has cells.
C19_Witness ==
    /\ last.op = "constructor"
    /\ last.err = "none"
    /\ prev.snap.valid
    /\ prev.longestRowHint > 0
    /\ rows > 0
    /\ cols > 0
    /\ DOMAIN RowHints = {}
    /\ ~snap.valid

(***************************************************************************)
(* Hint engine, continued.                                                 *)
(***************************************************************************)
\* The largest element of a finite set of naturals, 0 for the empty set.
MaxOf(S) == IF S = {} THEN 0 ELSE CHOOSE m \in S : \A x \in S : x <= m

\* C15: when calculateHints has returned, getLongestRowHintLength is the
\* largest length of a row's hint sequence and getLongestColHintLength the
\* largest length of a column's; a later calculateHints on a board with fewer
\* runs lowers them (they are recomputed from 0).
C15_LongestIsMaximum ==
    Calculated =>
        /\ getLongestRowHintLength =
               MaxOf({Len(getRowHints(r)) : r \in 0..(rows - 1)})
        /\ getLongestColHintLength =
               MaxOf({Len(getColHints(c)) : c \in 0..(cols - 1)})

\* A later calculateHints has lowered both longest-hint lengths.
C15_Witness ==
    /\ Calculated
    /\ prev.snap.valid
    /\ getLongestRowHintLength < prev.longestRowHint
    /\ getLongestColHintLength < prev.longestColHint

\* C16: when calculateHints has returned, every entry of every row and column
\* hint sequence is at least 1, a row or column has an empty hint sequence
\* exactly when it holds no filled cell, and on a board without filled cells
\* every hint sequence is empty and both longest-hint lengths are 0.
C16_HintsArePositive ==
    Calculated =>
        /\ \A r \in 0..(rows - 1) :
               /\ \A k \in 1..Len(getRowHints(r)) : getRowHints(r)[k] >= 1
               /\ getRowHints(r) = <<>> <=> FilledInRow(r) = 0
        /\ \A c \in 0..(cols - 1) :
               /\ \A k \in 1..Len(getColHints(c)) : getColHints(c)[k] >= 1
               /\ getColHints(c) = <<>> <=> FilledInCol(c) = 0
        /\ (\A i \in DOMAIN cells : cells[i] % 2 = 0) =>
               /\ \A r \in 0..(rows - 1) : getRowHints(r) = <<>>
               /\ \A c \in 0..(cols - 1) : getColHints(c) = <<>>
               /\ getLongestRowHintLength = 0
               /\ getLongestColHintLength = 0

\* calculateHints has returned on a board with an empty row beside a row of
\* two runs, and an empty column beside a filled one.
C16_Witness ==
    /\ Calculated
    /\ \E r \in 0..(rows - 1) : FilledInRow(r) = 0 /\ getRowHints(r) = <<>>
    /\ \E r \in 0..(rows - 1) : Len(getRowHints(r)) = 2
    /\ \E c \in 0..(cols - 1) : FilledInCol(c) = 0 /\ getColHints(c) = <<>>
    /\ \E c \in 0..(cols - 1) : FilledInCol(c) > 0

\* Row r and column c of the board as lines of true values, read from bit 0
\* of the stored bytes alone.
TrueRow(r) == [c \in 0..(cols - 1) |-> cells[r * cols + c] % 2 = 1]
TrueCol(c) == [r \in 0..(rows - 1) |-> cells[r * cols + c] % 2 = 1]

\* C11: the hints calculateHints produces are a function of the dimensions
\* and the true values alone (the run lengths of the lines of true values and
\* the largest number of runs per axis), so two boards of equal dimensions
\* that agree on isFilled everywhere get identical hints and longest-hint
\* lengths whatever their marked, revealed and guessed facets; and
\* calculateHints leaves every facet of every cell as it was.
C11_HintsDependOnTrueValuesOnly ==
    Calculated =>
        /\ \A r \in 0..(rows - 1) : getRowHints(r) = RunLengths(TrueRow(r), cols)
        /\ \A c \in 0..(cols - 1) : getColHints(c) = RunLengths(TrueCol(c), rows)
        /\ getLongestRowHintLength =
               MaxOf({Len(RunLengths(TrueRow(r), cols)) : r \in 0..(rows - 1)})
        /\ getLongestColHintLength =
               MaxOf({Len(RunLengths(TrueCol(c), rows)) : c \in 0..(cols - 1)})
        /\ cells = prev.cells

\* calculateHints has returned on a board holding a filled cell that is
\* marked, revealed and guessed filled beside an empty cell that is marked,
\* revealed and guessed filled, and a cell with no facet but its true value.
C11_Witness ==
    /\ Calculated
    /\ \E i \in DOMAIN cells : cells[i] = 15
    /\ \E i \in DOMAIN cells : cells[i] = 14
    /\ \E i \in DOMAIN cells : cells[i] \in {0, 1}

(***************************************************************************)
(* Visual mapper.                                                          *)
(***************************************************************************)
\* C14: getCellVisual returns one of the five labels, decided by the facets
\* of the cell: unrevealed and unmarked "empty", unrevealed and marked
\* "marked" (whatever the true value and the guess), revealed and filled
\* "filled" when guessed filled and "filled-incorrect" when guessed empty,
\* revealed and empty "empty-incorrect" when guessed filled and "empty" when
\* guessed empty; the call changes no cell.
C14_CellVisualTable ==
    last.op = "getCellVisual" =>
        /\ last.arg \in CellVisual
        /\ cells = prev.cells
        /\ (~nowRevealed /\ ~nowMarked) => last.arg = "empty"
        /\ (~nowRevealed /\ nowMarked) => last.arg = "marked"
        /\ (nowRevealed /\ nowFilled /\ nowGuessedFilled) => last.arg = "filled"
        /\ (nowRevealed /\ nowFilled /\ ~nowGuessedFilled) => last.arg = "filled-incorrect"
        /\ (nowRevealed /\ ~nowFilled /\ nowGuessedFilled) => last.arg = "empty-incorrect"
        /\ (nowRevealed /\ ~nowFilled /\ ~nowGuessedFilled) => last.arg = "empty"

\* getCellVisual has labelled a revealed, filled cell guessed empty.
C14_Witness ==
    /\ last.op = "getCellVisual"
    /\ nowRevealed
    /\ nowFilled
    /\ ~nowGuessedFilled
    /\ last.arg = "filled-incorrect"

(***************************************************************************)
(* Text rendering.                                                         *)
(***************************************************************************)
\* The width column c takes in the i-th line of column hints and in the line
\* of row r.
ColHintWidth(i, c) == Len(ColHintLine(i, c + 1)) - Len(ColHintLine(i, c))
CellWidth(r, c) == Len(CellLine(r, c + 1)) - Len(CellLine(r, c))

\* The width of column c when one grouping separator follows every fourth
\* column that has a column after it.
GroupedWidth(c) == 2 + (IF c % 4 = 3 /\ c + 1 < cols THEN 1 ELSE 0)

\* C17: in the lines of toString a grouping separator follows column 4k+3
\* (before column 4k+4) and no other column, in the lines of column hints as
\* in the lines of the rows, so the hint of every column starts at the offset
\* at which the cell of that column starts.
C17_GroupingEveryFourColumns ==
    last.op = "toString" =>
        \A c \in 0..(cols - 1) :
            /\ \A i \in 0..(longestColHint - 1) :
                   /\ ColHintWidth(i, c) = GroupedWidth(c)
                   /\ \A r \in 0..(rows - 1) :
                          Len(ColHintLine(i, c)) = Len(CellLine(r, c))
            /\ \A r \in 0..(rows - 1) : CellWidth(r, c) = GroupedWidth(c)

====
